---- MODULE Spec2Model ----
(***************************************************************************)
(* A model of the itch.io integration plugin (src/itch.py): the refresh    *)
(* scheduler (tick, get_owned_games, get_local_games), the playtime        *)
(* tracker (launch_game, get_game_time, _get_time_played) and the two      *)
(* in-memory catalogs.                                                     *)
(*                                                                         *)
(* Time is counted in clock ticks of 1/Hz second, so that time.time() is a *)
(* reading with a fractional part and int(time.time()) really truncates.   *)
(* A Python str is a sequence of text fragments; a decimal number is a     *)
(* sequence of one-character fragments.  A Python dict that is iterated is *)
(* a sequence of <<key, value>> pairs in insertion order; persistent_cache *)
(* (never iterated) is a function whose DOMAIN is the set of keys present. *)
(***************************************************************************)
EXTENDS Integers, Sequences, FiniteSets, Bags, TLC

VARIABLES
    now,                \* the wall clock, in ticks: what time.time() returns
    persistent_cache,   \* Plugin.persistent_cache of the running process
    host_cache,         \* the copy the host keeps: what push_cache() last sent
    running_task,       \* self.__running_task
    owned_games,        \* self.__owned_games
    local_games,        \* self.__local_games
    pending,            \* coroutines created by tick that have not run yet
    launches,           \* launch_game coroutines awaiting their game process
    last,               \* the last handler that ran: its name, error and result
    credited,           \* per title, the minutes of every session completed so far
    seen,               \* per title, the total its launches in flight started from
    disk                \* the paths for which os.path.exists is true

vars == <<now, persistent_cache, host_cache, running_task, owned_games,
          local_games, pending, launches, last, credited, seen, disk>>

----------------------------------------------------------------------------
(* Bounds of the model *)

Hz == 2            \* clock ticks per second
MaxPending == 2    \* tick-created coroutines of one task waiting to run
MaxLaunches == 2   \* game processes running at once
MaxMinutes == 2    \* largest |total minutes| a session may persist
MaxAssoc == 2      \* download keys / collections joined to one game

----------------------------------------------------------------------------
(* Program constants *)

GET_OWNED_GAMES_TASK == "GET_OWNED_GAMES_TASK"
GET_OWNED_GAMES_LAST_CHECK == <<"GET_OWNED_GAMES_LAST_CHECK">>
GET_OWNED_GAMES_WAIT_TIME == 24 * 3600

GET_LOCAL_GAMES_TASK == "GET_LOCAL_GAMES_TASK"
GET_LOCAL_GAMES_LAST_CHECK == <<"GET_LOCAL_GAMES_LAST_CHECK">>
GET_LOCAL_GAMES_WAIT_TIME == 1 * 3600

Tasks == {GET_OWNED_GAMES_TASK, GET_LOCAL_GAMES_TASK}

LastCheckKey(task) ==
    IF task = GET_OWNED_GAMES_TASK THEN GET_OWNED_GAMES_LAST_CHECK
                                   ELSE GET_LOCAL_GAMES_LAST_CHECK

WaitTime(task) ==
    IF task = GET_OWNED_GAMES_TASK THEN GET_OWNED_GAMES_WAIT_TIME
                                   ELSE GET_LOCAL_GAMES_WAIT_TIME

FreeToPlay == "FreeToPlay"
SinglePurchase == "SinglePurchase"
Installed == "Installed"

----------------------------------------------------------------------------
(* Python values *)

\* d[k] = v on a dict that is never iterated
CacheSet(d, k, v) == [q \in (DOMAIN d) \cup {k} |-> IF q = k THEN v ELSE d[q]]

EmptyCache == [q \in {} |-> 0]

\* an insertion-ordered dict: k in d, d[k], d[k] = v, d.values()
DictHas(d, k) == \E i \in DOMAIN d : d[i][1] = k

DictGet(d, k) == d[CHOOSE i \in DOMAIN d : d[i][1] = k][2]

\* d = {k: v}: the dict is made anew with the one entry
DictReplace(d, k, v) == <<<<k, v>>>>

DictSet(d, k, v) ==
    IF DictHas(d, k)
    THEN [i \in DOMAIN d |-> IF d[i][1] = k THEN <<k, v>> ELSE d[i]]
    ELSE Append(d, <<k, v>>)

DictValues(d) == [i \in DOMAIN d |-> d[i][2]]

DigitChars == <<"0", "1", "2", "3", "4", "5", "6", "7", "8", "9">>

RECURSIVE Digits(_)
Digits(n) ==
    IF n < 10 THEN <<DigitChars[n + 1]>>
              ELSE Digits(n \div 10) \o <<DigitChars[(n % 10) + 1]>>

\* str(n) of an int
PyStr(n) == IF n < 0 THEN <<"-">> \o Digits(0 - n) ELSE Digits(n)

DigitValue(c) == (CHOOSE i \in DOMAIN DigitChars : DigitChars[i] = c) - 1

RECURSIVE ParseDigits(_)
ParseDigits(s) ==
    IF Len(s) = 0 THEN 0
    ELSE 10 * ParseDigits(SubSeq(s, 1, Len(s) - 1)) + DigitValue(s[Len(s)])

\* int(s) of a decimal str
PyInt(s) == IF s[1] = "-" THEN 0 - ParseDigits(Tail(s)) ELSE ParseDigits(s)

\* int(x / d) for ints x and d > 0: true division, then truncation toward zero
IntOfQuotient(x, d) == IF x >= 0 THEN x \div d ELSE 0 - ((0 - x) \div d)

\* int(time.time())
IntTime(t) == t \div Hz

\* os.path.join(base, path) of two relative fragments
PathJoin(base, path) == base \o <<"/">> \o path

_time_played_key(game_id) == <<"time">> \o game_id

_last_played_time_key(game_id) == <<"last">> \o game_id

----------------------------------------------------------------------------
(* What a handler leaves behind *)

\* what a handler left behind: its name, the exception it raised ("none" when
\* it returned), what it returned, the rows it fetched, and for a launch whether
\* the total changed between the last start of the title and this completion
Outcome(op, err, ret, rows) ==
    [op |-> op, err |-> err, ret |-> ret, rows |-> rows, stale |-> FALSE]

NoResult == Outcome("__init__", "none", <<>>, <<>>)

----------------------------------------------------------------------------
(* tick *)

\* one condition of tick, with Python's short-circuit "and": the guard is
\* read first, then persistent_cache[...] (KeyError when the key is absent)
TickCond(task) ==
    IF running_task[task] THEN "skip"
    ELSE IF LastCheckKey(task) \notin DOMAIN persistent_cache THEN "KeyError"
    ELSE IF now - persistent_cache[LastCheckKey(task)] > WaitTime(task) * Hz
         THEN "start"
         ELSE "skip"

create_task(p, task) == [p EXCEPT ![task] = @ + 1]

Tick ==
    LET c1 == TickCond(GET_OWNED_GAMES_TASK)
        c2 == TickCond(GET_LOCAL_GAMES_TASK)
        p1 == IF c1 = "start" THEN create_task(pending, GET_OWNED_GAMES_TASK)
                              ELSE pending
        p2 == IF c2 = "start" THEN create_task(p1, GET_LOCAL_GAMES_TASK)
                              ELSE p1
    IN  /\ IF c1 = "KeyError"
           THEN /\ pending' = pending
                /\ last' = Outcome("tick", "KeyError", <<>>, <<>>)
           ELSE IF c2 = "KeyError"
           THEN /\ pending' = p1
                /\ last' = Outcome("tick", "KeyError", <<>>, <<>>)
           ELSE /\ pending' = p2
                /\ last' = Outcome("tick", "none", <<>>, <<>>)
        /\ \A t \in Tasks : pending'[t] <= MaxPending
        /\ UNCHANGED <<now, persistent_cache, host_cache, running_task,
                       owned_games, local_games, launches, credited, seen, disk>>

----------------------------------------------------------------------------
(* get_owned_games *)

RECURSIVE Repeat(_, _)
Repeat(x, n) == IF n = 0 THEN <<>> ELSE <<x>> \o Repeat(x, n - 1)

AtLeastOne(n) == IF n = 0 THEN 1 ELSE n

\* the WHERE clause on one joined row of game g: with no download key (no
\* collection) the LEFT JOIN yields a single row whose dk (cg) columns are NULL
OwnedWhere(g) == (g.collections > 0 /\ g.min_price = 0) \/ (g.keys > 0)

\* the rows the two LEFT JOINs yield for game g: one per pair of a matching
\* download key and a matching collection
OwnedRowsOf(g) ==
    IF OwnedWhere(g)
    THEN Repeat([id |-> g.id, title |-> g.title, min_price |-> g.min_price,
                 can_be_bought |-> g.can_be_bought],
                AtLeastOne(g.keys) * AtLeastOne(g.collections))
    ELSE <<>>

\* list(cursor.execute(sql)) on the games table, scanned in table order
RECURSIVE OwnedQuery(_)
OwnedQuery(games) ==
    IF Len(games) = 0 THEN <<>>
    ELSE OwnedRowsOf(Head(games)) \o OwnedQuery(Tail(games))

\* LicenseOf with the price forgotten: whatever can be bought is a purchase
LicenseByFlag(row) ==
    IF row.can_be_bought = 1 THEN SinglePurchase ELSE FreeToPlay

LicenseOf(row) ==
    LET can_be_bought == (row.can_be_bought = 1)
    IN  IF can_be_bought /\ row.min_price > 0 THEN SinglePurchase
                                              ELSE FreeToPlay

GameOf(row) ==
    [game_id |-> row.id, game_title |-> row.title, license_type |-> LicenseOf(row)]

\* StoreOwned on a list instead of a dict: every row adds an entry
StoreOwnedAppend(d, row) == Append(d, <<row.id, GameOf(row)>>)

\* self.__owned_games[id] = Game(...)
StoreOwned(d, row) == DictSet(d, row.id, GameOf(row))

\* the for loop over resp
RECURSIVE BuildOwned(_, _)
BuildOwned(d, rows) ==
    IF Len(rows) = 0 THEN d
    ELSE BuildOwned(StoreOwned(d, Head(rows)), Tail(rows))

\* the coroutine body: it has no await, so it runs in one piece.  An
\* exception of sqlite3 leaves the lines after it unexecuted.
get_owned_games(db) ==
    IF ~db.available
    THEN /\ running_task' = [running_task EXCEPT ![GET_OWNED_GAMES_TASK] = TRUE]
         /\ last' = Outcome("get_owned_games", "OperationalError", <<>>, <<>>)
         /\ UNCHANGED <<owned_games, persistent_cache>>
    ELSE LET resp == OwnedQuery(db.games)
             built == BuildOwned(owned_games, resp)
         IN  /\ owned_games' = built
             /\ persistent_cache' =
                    CacheSet(persistent_cache, GET_OWNED_GAMES_LAST_CHECK, now)
             /\ running_task' = [running_task EXCEPT ![GET_OWNED_GAMES_TASK] = FALSE]
             /\ last' = Outcome("get_owned_games", "none", DictValues(built), resp)

----------------------------------------------------------------------------
(* get_local_games *)

\* __exe_from_json: json.loads, then the candidates test.  None is <<>>.
exe_from_json(verdict) ==
    IF verdict.json = "invalid"
    THEN [err |-> "JSONDecodeError", path |-> <<>>]
    ELSE IF verdict.candidates = "absent"
    THEN [err |-> "KeyError", path |-> <<>>]
    ELSE IF verdict.candidates = "null" \/ Len(verdict.paths) = 0
    THEN [err |-> "none", path |-> <<>>]
    ELSE [err |-> "none", path |-> PathJoin(verdict.basePath, verdict.paths[1])]

LocalGameOf(game_id, exe_path) ==
    [game_id |-> game_id, path |-> exe_path, local_game_state |-> Installed]

\* the for loop over installed_games: an exception ends it where it is
RECURSIVE ScanCaves(_, _, _)
ScanCaves(d, caves, files) ==
    IF Len(caves) = 0 THEN [games |-> d, err |-> "none"]
    ELSE LET game_id == Head(caves).game_id
             exe == exe_from_json(Head(caves).verdict)
         IN  IF exe.err # "none" THEN [games |-> d, err |-> exe.err]
             ELSE IF Len(exe.path) = 0 \/ exe.path \notin files
             THEN ScanCaves(d, Tail(caves), files)
             ELSE ScanCaves(DictSet(d, PyStr(game_id), LocalGameOf(game_id, exe.path)),
                            Tail(caves), files)

toGalaxyLocalGame(game) ==
    [game_id |-> game.game_id, local_game_state |-> game.local_game_state]

GalaxyLocalGames(d) == [i \in DOMAIN d |-> toGalaxyLocalGame(d[i][2])]

get_local_games(db, files) ==
    IF ~db.available
    THEN /\ running_task' = [running_task EXCEPT ![GET_LOCAL_GAMES_TASK] = TRUE]
         /\ last' = Outcome("get_local_games", "OperationalError", <<>>, <<>>)
         /\ UNCHANGED <<local_games, persistent_cache>>
    ELSE LET scan == ScanCaves(local_games, db.caves, files)
         IN  /\ local_games' = scan.games
             /\ IF scan.err # "none"
                THEN /\ running_task' =
                            [running_task EXCEPT ![GET_LOCAL_GAMES_TASK] = TRUE]
                     /\ last' = Outcome("get_local_games", scan.err, <<>>, db.caves)
                     /\ UNCHANGED persistent_cache
                ELSE /\ persistent_cache' =
                            CacheSet(persistent_cache, GET_LOCAL_GAMES_LAST_CHECK, now)
                     /\ running_task' =
                            [running_task EXCEPT ![GET_LOCAL_GAMES_TASK] = FALSE]
                     /\ last' = Outcome("get_local_games", "none", GalaxyLocalGames(scan.games), db.caves)

----------------------------------------------------------------------------
(* the two ways a refresh runs *)

\* the host asks for the owned games: the protocol's getOwnedGames
HostGetOwnedGames(db) ==
    /\ get_owned_games(db)
    /\ UNCHANGED <<now, host_cache, local_games, pending, launches, credited, seen, disk>>

\* the host asks for the local games: the protocol's getLocalGames
HostGetLocalGames(db, files) ==
    /\ get_local_games(db, files)
    /\ UNCHANGED <<now, host_cache, owned_games, pending, launches, credited, seen, disk>>

\* the event loop runs a coroutine that tick created
RunOwnedTask(db) ==
    /\ pending[GET_OWNED_GAMES_TASK] > 0
    /\ pending' = [pending EXCEPT ![GET_OWNED_GAMES_TASK] = @ - 1]
    /\ get_owned_games(db)
    /\ UNCHANGED <<now, host_cache, local_games, launches, credited, seen, disk>>

RunLocalTask(db, files) ==
    /\ pending[GET_LOCAL_GAMES_TASK] > 0
    /\ pending' = [pending EXCEPT ![GET_LOCAL_GAMES_TASK] = @ - 1]
    /\ get_local_games(db, files)
    /\ UNCHANGED <<now, host_cache, owned_games, launches, credited, seen, disk>>

----------------------------------------------------------------------------
(* launch_game and the playtime reads *)

\* _get_time_played with a default of 0 for an absent key
_get_time_played_or_zero(cache, game_id) ==
    IF _time_played_key(game_id) \in DOMAIN cache
    THEN <<PyInt(cache[_time_played_key(game_id)])>>
    ELSE <<0>>

\* Optional[int]: None is <<>>, a value n is <<n>>
_get_time_played(cache, game_id) ==
    IF _time_played_key(game_id) \in DOMAIN cache
    THEN <<PyInt(cache[_time_played_key(game_id)])>>
    ELSE <<>>

_get_last_played_time(cache, game_id) ==
    IF _last_played_time_key(game_id) \in DOMAIN cache
    THEN <<PyInt(cache[_last_played_time_key(game_id)])>>
    ELSE <<>>

\* x or 0, for an Optional[int] x: None and 0 are falsy
OrZero(x) == IF Len(x) = 0 THEN 0 ELSE IF x[1] = 0 THEN 0 ELSE x[1]

\* session_mins_played with floor division: (end - start) // 60
session_mins_floor(start, end) == (end - start) \div 60

\* int((end - start) / 60)
session_mins_played(start, end) == IntOfQuotient(end - start, 60)

\* PlayedBefore read before the await: the total persisted when the title was
\* started
PlayedAtStart(cache, l) == seen[l.game_id]

\* the total that launch l reads when its process has exited
PlayedBefore(cache, l) == _get_time_played(cache, l.game_id)

\* (self._get_time_played(game_id) or 0) + session_mins_played
time_played(cache, l, end) ==
    OrZero(PlayedBefore(cache, l)) + session_mins_played(l.start, end)

\* the two writes that follow update_game_time
StoreTimes(cache, game_id, played, end) ==
    CacheSet(CacheSet(cache, _time_played_key(game_id), PyStr(played)),
             _last_played_time_key(game_id), PyStr(end))

GameTime(game_id, played, last_played) ==
    [game_id |-> game_id, time_played |-> played, last_played_time |-> last_played]

\* launch_game with self.__local_games.get(game_id): a title without an
\* entry is started all the same, with no executable path
LaunchStartUnchecked(game_id) ==
    /\ BagCardinality(launches) < MaxLaunches
    /\ launches' = launches (+) SetToBag({
            [game_id |-> game_id,
             exe_path |-> IF DictHas(local_games, game_id)
                          THEN DictGet(local_games, game_id).path ELSE <<>>,
             start |-> IntTime(now)]})
    /\ seen' = [seen EXCEPT ![game_id] = _get_time_played(persistent_cache, game_id)]
    /\ UNCHANGED <<now, persistent_cache, host_cache, running_task,
                   owned_games, local_games, pending, last, credited, disk>>

\* launch_game up to its await: the lookup of the executable (KeyError when
\* the title is not in __local_games), the start reading, the process.
\* seen and credited are not in the code: seen notes the total persisted at
\* this moment, credited adds up the minutes of the sessions that completed.
LaunchStart(game_id) ==
    IF ~DictHas(local_games, game_id)
    THEN /\ last' = Outcome("launch_game", "KeyError", <<>>, <<>>)
         /\ UNCHANGED <<now, persistent_cache, host_cache, running_task,
                        owned_games, local_games, pending, launches, credited, seen,
                        disk>>
    ELSE /\ BagCardinality(launches) < MaxLaunches
         /\ launches' = launches (+) SetToBag({
                [game_id |-> game_id,
                 exe_path |-> DictGet(local_games, game_id).path,
                 start |-> IntTime(now)]})
         /\ seen' = [seen EXCEPT ![game_id] =
                        _get_time_played(persistent_cache, game_id)]
         /\ UNCHANGED <<now, persistent_cache, host_cache, running_task,
                        owned_games, local_games, pending, last, credited, disk>>

\* launch_game from the exit of the process to its end: no await in between,
\* so the read of the total, the two writes and push_cache are one step
LaunchEnd(l) ==
    LET end == IntTime(now)
        played == time_played(persistent_cache, l, end)
        stored == StoreTimes(persistent_cache, l.game_id, played, end)
    IN  /\ BagIn(l, launches)
        /\ played <= MaxMinutes /\ 0 - played <= MaxMinutes
        /\ launches' = launches (-) SetToBag({l})
        /\ persistent_cache' = stored
        /\ host_cache' = stored
        /\ last' = [Outcome("launch_game", "none",
                            <<GameTime(l.game_id, played, end)>>, <<>>)
                    EXCEPT !.stale = (seen[l.game_id] # PlayedBefore(persistent_cache, l))]
        /\ credited' = [credited EXCEPT ![l.game_id] =
                            @ + session_mins_played(l.start, end)]
        /\ seen' = [seen EXCEPT ![l.game_id] =
                        IF \E m \in BagToSet(launches') : m.game_id = l.game_id
                        THEN @ ELSE <<played>>]
        /\ UNCHANGED <<now, running_task, owned_games, local_games, pending, disk>>

\* get_game_time: both times are None, whatever the title and the context
get_game_time(game_id, context) == GameTime(game_id, <<>>, <<>>)

\* the host asks for the game time of a title: the protocol's getGameTime
HostGetGameTime(game_id) ==
    /\ last' = Outcome("get_game_time", "none", <<get_game_time(game_id, <<>>)>>, <<>>)
    /\ UNCHANGED <<now, persistent_cache, host_cache, running_task, owned_games,
                   local_games, pending, launches, credited, seen, disk>>

----------------------------------------------------------------------------
(* The environment: the titles, the clock, the butler database, the disk *)

GameIds == 1 .. 2

TitleIds == {PyStr(id) : id \in GameIds}

Seconds(s) == s * Hz

\* readings around the two wait times
SchedTimes ==
    {0,
     Seconds(GET_LOCAL_GAMES_WAIT_TIME), Seconds(GET_LOCAL_GAMES_WAIT_TIME) + 1,
     Seconds(GET_OWNED_GAMES_WAIT_TIME), Seconds(GET_OWNED_GAMES_WAIT_TIME) + 1}

\* readings around one minute
PlayTimes == {0, Seconds(59) + 1, Seconds(90)}

NoDb == [available |-> FALSE, games |-> <<>>, caves |-> <<>>]

EmptyDb == [available |-> TRUE, games |-> <<>>, caves |-> <<>>]

GoodVerdict(id) ==
    [json |-> "object", candidates |-> "list",
     basePath |-> <<"apps", DigitChars[id + 1]>>, paths |-> << <<"a.exe">> >>]

BadVerdict ==
    [json |-> "invalid", candidates |-> "absent", basePath |-> <<>>, paths |-> <<>>]

ExeOf(id) == PathJoin(GoodVerdict(id).basePath, <<"a.exe">>)

Cave(id, verdict) == [game_id |-> id, verdict |-> verdict]

\* a butler.db for the scheduler: missing, empty, or with a cave that cannot
\* be read
SchedDbs ==
    {NoDb, EmptyDb,
     [available |-> TRUE, games |-> <<>>, caves |-> <<Cave(2, BadVerdict)>>]}

\* a butler.db with title 1 installed and title 2 not
PlayDbs ==
    {[available |-> TRUE, games |-> <<>>, caves |-> <<Cave(1, GoodVerdict(1))>>]}

AllFiles == {ExeOf(id) : id \in GameIds}

\* a verdict with a second candidate after a.exe
TwoVerdict(id) == [GoodVerdict(id) EXCEPT !.paths = << <<"a.exe">>, <<"b.exe">> >>]

\* the verdict of an install under another base path
MovedVerdict(id) == [GoodVerdict(id) EXCEPT !.basePath = <<"games", DigitChars[id + 1]>>]

\* "candidates": []
EmptyVerdict(id) == [GoodVerdict(id) EXCEPT !.paths = <<>>]

\* "candidates": null
NullVerdict(id) == [GoodVerdict(id) EXCEPT !.candidates = "null", !.paths = <<>>]

\* a JSON object without the key "candidates"
NoCandidates(id) == [GoodVerdict(id) EXCEPT !.candidates = "absent", !.paths = <<>>]

VerdictsOf(id) ==
    {GoodVerdict(id), TwoVerdict(id), MovedVerdict(id), EmptyVerdict(id),
     NullVerdict(id), NoCandidates(id), BadVerdict}

\* the caves table: a first row of title 1 with any verdict or of title 2
\* installed, then a row of title 2, installed or with a verdict that is not
\* JSON
FirstCaves == {Cave(1, v) : v \in VerdictsOf(1)} \cup {Cave(2, GoodVerdict(2))}

SecondCaves == {Cave(2, GoodVerdict(2)), Cave(2, BadVerdict)}

CaveTables ==
    {<<>>}
    \cup {<<c>> : c \in FirstCaves}
    \cup {<<c1, c2>> : c1 \in FirstCaves, c2 \in SecondCaves}

LocalDbs ==
    {NoDb} \cup {[available |-> TRUE, games |-> <<>>, caves |-> t] : t \in CaveTables}

\* title 1 with only its second candidate on disk
LaterFiles == {PathJoin(GoodVerdict(1).basePath, <<"b.exe">>), ExeOf(2)}

\* title 1 under the other base path
MovedFiles == {PathJoin(MovedVerdict(1).basePath, <<"a.exe">>), ExeOf(2)}

Disks == {AllFiles, LaterFiles, MovedFiles, {}}

GameRow(id, min_price, can_be_bought, keys, collections) ==
    [id |-> id, title |-> <<"game", DigitChars[id + 1]>>, min_price |-> min_price,
     can_be_bought |-> can_be_bought, keys |-> keys, collections |-> collections]

Prices == {0, 5}

\* title id in the games table with any price, either flag, and up to
\* MaxAssoc download keys and collections
GameRowsOf(id) ==
    {GameRow(id, p, b, k, c) :
        p \in Prices, b \in 0 .. 1, k \in 0 .. MaxAssoc, c \in 0 .. MaxAssoc}

\* title 2 bought with one download key, or free in one collection
SecondRows == {GameRow(2, 5, 1, 1, 0), GameRow(2, 0, 0, 0, 1)}

\* the games table: title 1 is any row, title 2 one of SecondRows
GameTables ==
    {<<>>}
    \cup {<<g>> : g \in GameRowsOf(1) \cup SecondRows}
    \cup {<<g1, g2>> : g1 \in GameRowsOf(1), g2 \in SecondRows}

CatalogDbs ==
    {NoDb} \cup {[available |-> TRUE, games |-> t, caves |-> <<>>] : t \in GameTables}

CatalogTimes == {0, Seconds(GET_OWNED_GAMES_WAIT_TIME) + 1}

\* a butler.db whose games table has title 1 alone, free in one collection,
\* or title 2 alone, bought with one download key
ShelfDbs ==
    {[available |-> TRUE, games |-> <<g>>, caves |-> <<>>] :
        g \in {GameRow(1, 0, 0, 0, 1), GameRow(2, 5, 1, 1, 0)}}

----------------------------------------------------------------------------
(* __init__, on the cache the host kept from the processes before *)

\* what launch_game of title 1 pushed after a session within one second at 0
PlayedOnce == StoreTimes(EmptyCache, PyStr(1), 0, 0)

\* the caches push_cache can have left with the host: none, or PlayedOnce with
\* the last checks that had been stamped by then.  A process started on the
\* empty cache produces each of them: get_local_games stores title 1 (and
\* stamps its last check, unless a later cave raised), get_owned_games stamps
\* its own, launch_game of title 1 at 0 pushes the cache, the process restarts.
KeptCaches ==
    {EmptyCache,
     PlayedOnce,
     CacheSet(PlayedOnce, GET_LOCAL_GAMES_LAST_CHECK, 0),
     CacheSet(PlayedOnce, GET_OWNED_GAMES_LAST_CHECK, 0),
     CacheSet(CacheSet(PlayedOnce, GET_LOCAL_GAMES_LAST_CHECK, 0),
              GET_OWNED_GAMES_LAST_CHECK, 0)}

Init ==
    /\ now = 0
    /\ host_cache \in KeptCaches
    /\ persistent_cache = host_cache
    /\ running_task = [t \in Tasks |-> FALSE]
    /\ owned_games = <<>>
    /\ local_games = <<>>
    /\ pending = [t \in Tasks |-> 0]
    /\ launches = EmptyBag
    /\ last = NoResult
    /\ credited = [g \in TitleIds |-> OrZero(_get_time_played(host_cache, g))]
    /\ seen = [g \in TitleIds |-> _get_time_played(host_cache, g)]
    /\ disk = AllFiles

\* the plugin process ends and a new one is constructed: the host hands it
\* the cache it was last pushed; everything in memory starts afresh
Restart ==
    /\ persistent_cache' = host_cache
    /\ running_task' = [t \in Tasks |-> FALSE]
    /\ owned_games' = <<>>
    /\ local_games' = <<>>
    /\ pending' = [t \in Tasks |-> 0]
    /\ launches' = EmptyBag
    /\ last' = NoResult
    /\ seen' = [g \in TitleIds |-> _get_time_played(host_cache, g)]
    /\ UNCHANGED <<now, host_cache, credited, disk>>

\* the wall clock reads t: time passes, or the clock is set
SetClock(t) ==
    /\ t # now
    /\ now' = t
    /\ UNCHANGED <<persistent_cache, host_cache, running_task, owned_games,
                   local_games, pending, launches, last, credited, seen, disk>>

\* files are installed, moved or deleted: os.path.exists answers by files
SetDisk(files) ==
    /\ files # disk
    /\ disk' = files
    /\ UNCHANGED <<now, persistent_cache, host_cache, running_task, owned_games,
                   local_games, pending, launches, last, credited, seen>>

----------------------------------------------------------------------------
(* The scheduler: no game is launched *)

Next ==
    \/ Tick
    \/ \E db \in SchedDbs : HostGetOwnedGames(db)
    \/ \E db \in SchedDbs : HostGetLocalGames(db, disk)
    \/ \E db \in SchedDbs : RunOwnedTask(db)
    \/ \E db \in SchedDbs : RunLocalTask(db, disk)
    \/ Restart
    \/ \E t \in SchedTimes : SetClock(t)

Spec == Init /\ [][Next]_vars

(* The playtime tracker: title 1 is installed, games are launched *)

NextPlay ==
    \/ \E db \in PlayDbs : HostGetLocalGames(db, disk)
    \/ \E g \in TitleIds : LaunchStart(g)
    \/ \E l \in BagToSet(launches) : LaunchEnd(l)
    \/ \E g \in TitleIds : HostGetGameTime(g)
    \/ Restart
    \/ \E t \in PlayTimes : SetClock(t)

SpecPlay == Init /\ [][NextPlay]_vars

(* The owned catalog: the host asks for the owned games of any games table *)

NextCatalog ==
    \/ \E db \in CatalogDbs : HostGetOwnedGames(db)
    \/ Restart
    \/ \E t \in CatalogTimes : SetClock(t)

SpecCatalog == Init /\ [][NextCatalog]_vars

(* The installed catalog: the host asks for the local games of any caves
   table, on a disk that changes, and for the owned games of a games table
   that changes *)

NextLocal ==
    \/ \E db \in LocalDbs : HostGetLocalGames(db, disk)
    \/ \E db \in ShelfDbs : HostGetOwnedGames(db)
    \/ Restart
    \/ \E files \in Disks : SetDisk(files)

SpecLocal == Init /\ [][NextLocal]_vars

----------------------------------------------------------------------------
(* The scheduler's claims, under Spec *)

\* C1: for each task at most one refresh is in flight: a second tick, while
\* the refresh the first one created has not run yet, creates no other
C1_OneInFlight == \A t \in Tasks : pending[t] <= 1

\* C2: a tick of a process in which a task's last check was never stamped
\* returns without error and has started the refresh of every such task
C2_FreshTick ==
    (last.op = "tick" /\ \E t \in Tasks : LastCheckKey(t) \notin DOMAIN persistent_cache)
        => /\ last.err = "none"
           /\ \A t \in Tasks :
                (LastCheckKey(t) \notin DOMAIN persistent_cache /\ ~running_task[t])
                    => pending[t] >= 1

RefreshOf(t) ==
    IF t = GET_OWNED_GAMES_TASK THEN "get_owned_games" ELSE "get_local_games"

\* C3: a refresh that has ended, returned or raised, has left its guard false
C3_GuardCleared == \A t \in Tasks : last.op = RefreshOf(t) => ~running_task[t]

\* C4: the first tick of a restarted process starts the refresh of a task
\* whose last check was kept exactly when now is later than that last check
\* plus the task's wait time
C4_AfterRestart ==
    [][(last.op = "__init__" /\ last'.op = "tick")
        => \A t \in Tasks :
            LastCheckKey(t) \in DOMAIN persistent_cache
                => (pending'[t] = 1 <=>
                        now > persistent_cache[LastCheckKey(t)] + Seconds(WaitTime(t)))]_vars

----------------------------------------------------------------------------
(* The playtime tracker's claims, under SpecPlay *)

TotalOf(cache, g) == PyInt(cache[_time_played_key(g)])

\* the step is the completion of launch l
Completes(l) ==
    /\ BagIn(l, launches)
    /\ launches' = launches (-) SetToBag({l})
    /\ last'.op = "launch_game" /\ last'.err = "none"

\* C5: the persisted total of a title never decreases
C5_Monotone ==
    [][\A g \in TitleIds :
        (_time_played_key(g) \in DOMAIN persistent_cache
            /\ _time_played_key(g) \in DOMAIN persistent_cache')
        => TotalOf(persistent_cache', g) >= TotalOf(persistent_cache, g)]_vars

PreviousTotal(g) ==
    IF _time_played_key(g) \in DOMAIN persistent_cache
    THEN TotalOf(persistent_cache, g) ELSE 0

\* floor(d / 60)
FloorMinutes(d) == d \div 60

\* d / 60 rounded toward zero: the q of the sign of d with 60|q| <= |d| < 60(|q| + 1)
Magnitude(x) == IF x < 0 THEN 0 - x ELSE x

MinutesTowardZero(d) ==
    CHOOSE q \in (0 - Magnitude(d)) .. Magnitude(d) :
        /\ q * d >= 0
        /\ 60 * Magnitude(q) <= Magnitude(d)
        /\ Magnitude(d) < 60 * (Magnitude(q) + 1)

\* C6 as stated: a completed session from start to end sets the total to the
\* previous total (0 when absent) plus floor((end - start) / 60), and the last
\* played time to end
C6_FloorMinutes ==
    [][\A l \in BagToSet(launches) :
        Completes(l) =>
            /\ _get_time_played(persistent_cache', l.game_id)
                = <<PreviousTotal(l.game_id) + FloorMinutes(IntTime(now) - l.start)>>
            /\ _get_last_played_time(persistent_cache', l.game_id) = <<IntTime(now)>>]_vars

\* C6 as amended: a completed session from start to end sets the total to the
\* previous total (0 when absent) plus (end - start) / 60 rounded toward zero,
\* and the last played time to end; when end and start are less than 60
\* seconds apart the total read back is the previous one
C6_MinutesTowardZero ==
    [][\A l \in BagToSet(launches) :
        Completes(l) =>
            /\ _get_time_played(persistent_cache', l.game_id)
                = <<PreviousTotal(l.game_id) + MinutesTowardZero(IntTime(now) - l.start)>>
            /\ _get_last_played_time(persistent_cache', l.game_id) = <<IntTime(now)>>
            /\ Magnitude(IntTime(now) - l.start) < 60
                => _get_time_played(persistent_cache', l.game_id)
                    = <<PreviousTotal(l.game_id)>>]_vars

\* a session of at least a minute has completed and made the total positive
C6_Witness ==
    /\ last.op = "launch_game" /\ last.err = "none"
    /\ last.ret[1].time_played > 0
    /\ last.ret[1].last_played_time >= 60

\* C7: the persisted total of a title is the sum of the minutes of all its
\* completed sessions, those of launches that overlapped included
C7_NoLostUpdate ==
    \A g \in TitleIds :
        _time_played_key(g) \in DOMAIN persistent_cache
            => TotalOf(persistent_cache, g) = credited[g]

\* a launch has completed whose title's total had changed under it, none of
\* that title is still running, and both sessions count in the total
C7_Witness ==
    /\ last.op = "launch_game" /\ last.err = "none" /\ last.stale
    /\ \A l \in BagToSet(launches) : l.game_id # last.ret[1].game_id
    /\ last.ret[1].time_played = 2

\* C8: for a title with no time key persisted, the read of the total minutes
\* and the read of the last played time both return None, not 0
C8_UnknownNotZero ==
    \A g \in TitleIds :
        _time_played_key(g) \notin DOMAIN persistent_cache
            => /\ _get_time_played(persistent_cache, g) = <<>>
               /\ _get_time_played(persistent_cache, g) # <<0>>
               /\ _get_last_played_time(persistent_cache, g) = <<>>

\* title 1 has completed a session, title 2 never has, and reads as unknown
C8_Witness ==
    /\ last.op = "launch_game" /\ last.err = "none"
    /\ _get_time_played(persistent_cache, PyStr(1)) # <<>>
    /\ _time_played_key(PyStr(2)) \notin DOMAIN persistent_cache
    /\ _get_time_played(persistent_cache, PyStr(2)) = <<>>

----------------------------------------------------------------------------
(* The owned catalog's claims, under SpecCatalog *)

\* C9: after an ownership refresh the entry of every row fetched is a
\* SinglePurchase exactly when the row can be bought and its price is above 0,
\* and FreeToPlay otherwise
C9_LicenseType ==
    (last.op = "get_owned_games" /\ last.err = "none")
        => \A i \in DOMAIN last.rows :
            /\ DictHas(owned_games, last.rows[i].id)
            /\ DictGet(owned_games, last.rows[i].id).license_type
                = IF last.rows[i].can_be_bought = 1 /\ last.rows[i].min_price > 0
                  THEN "SinglePurchase" ELSE "FreeToPlay"

\* a row that can be bought at price 0 has been classified FreeToPlay
C9_Witness ==
    /\ last.op = "get_owned_games" /\ last.err = "none"
    /\ \E i \in DOMAIN last.rows :
        /\ last.rows[i].can_be_bought = 1 /\ last.rows[i].min_price = 0
        /\ DictGet(owned_games, last.rows[i].id).license_type = "FreeToPlay"

\* C10: the list an ownership refresh returns holds each title id once
C10_OncePerTitle ==
    last.op = "get_owned_games"
        => \A i, j \in DOMAIN last.ret :
            i # j => last.ret[i].game_id # last.ret[j].game_id

\* the query returned a title in several rows, and the list returned holds
\* the two titles once each
C10_Witness ==
    /\ last.op = "get_owned_games" /\ last.err = "none"
    /\ \E i, j \in DOMAIN last.rows : i # j /\ last.rows[i].id = last.rows[j].id
    /\ Len(last.ret) = 2
    /\ Len(last.rows) > 2

----------------------------------------------------------------------------
(* The installed catalog's claims, under SpecLocal *)

\* the step is a refresh of the installed games that read the rows caves
RefreshedLocal(caves) ==
    HostGetLocalGames([available |-> TRUE, games |-> <<>>, caves |-> caves], disk)

\* the entry of title id in the map d: <<>> when there is none
EntryOf(d, id) == IF DictHas(d, PyStr(id)) THEN <<DictGet(d, PyStr(id))>> ELSE <<>>

\* row i is the only row of its title
OnlyRowOfTitle(caves, i) ==
    \A j \in DOMAIN caves : caves[j].game_id = caves[i].game_id => j = i

HasCandidates(v) == v.json = "object" /\ v.candidates = "list" /\ Len(v.paths) > 0

\* an empty candidates list, or no candidates field at all
HasNoCandidates(v) ==
    /\ v.json = "object"
    /\ v.candidates = "absent" \/ (v.candidates = "list" /\ Len(v.paths) = 0)

FirstCandidate(v) == PathJoin(v.basePath, v.paths[1])

\* the row resolves to a first candidate that exists on disk
Resolves(row) == HasCandidates(row.verdict) /\ FirstCandidate(row.verdict) \in disk

\* the row has been resolved and cached in the map d
Cached(d, row) ==
    EntryOf(d, row.game_id) = <<LocalGameOf(row.game_id, FirstCandidate(row.verdict))>>

\* C11: in a refresh of the installed games, a row whose verdict has an empty
\* candidates list or no candidates field produces no entry, and the refresh
\* goes on with the rows after it: those that resolve are cached
C11_SkippedAndContinued ==
    [][\A caves \in CaveTables : RefreshedLocal(caves) =>
        \A i \in DOMAIN caves : HasNoCandidates(caves[i].verdict) =>
            /\ OnlyRowOfTitle(caves, i) =>
                    EntryOf(local_games', caves[i].game_id)
                        = EntryOf(local_games, caves[i].game_id)
            /\ \A j \in DOMAIN caves :
                    (j > i /\ Resolves(caves[j])) => Cached(local_games', caves[j])]_vars

\* C12: a refresh of the installed games writes the entry of a row exactly
\* when the first candidate of its verdict, joined to the base path, exists on
\* disk, and with that path; no other candidate is looked at, so a row of
\* which only a later candidate exists gets no entry
C12_FirstCandidateOnly ==
    [][\A caves \in CaveTables : RefreshedLocal(caves) =>
        \A i \in DOMAIN caves : OnlyRowOfTitle(caves, i) =>
            IF Resolves(caves[i])
            THEN Cached(local_games', caves[i])
            ELSE EntryOf(local_games', caves[i].game_id)
                    = EntryOf(local_games, caves[i].game_id)]_vars

\* the verdict is not JSON, or lacks the field that is read first
Malformed(v) == v.json = "invalid" \/ v.candidates = "absent"

\* C13: a refresh of the installed games that meets a row with a malformed
\* verdict completes, and every other row of the batch that resolves, also
\* one after the malformed row, is cached
C13_MalformedSkippedAlone ==
    [][\A caves \in CaveTables :
        (RefreshedLocal(caves) /\ \E i \in DOMAIN caves : Malformed(caves[i].verdict))
        => /\ last'.err = "none"
           /\ \A j \in DOMAIN caves :
                (~Malformed(caves[j].verdict) /\ Resolves(caves[j]))
                    => Cached(local_games', caves[j])]_vars

\* every entry of the map d is in the map e, with the same value
Kept(d, e) ==
    \A i \in DOMAIN d : DictHas(e, d[i][1]) /\ DictGet(e, d[i][1]) = d[i][2]

\* C14: a refresh that fails, because the database cannot be opened or a row
\* raises, leaves every entry the two maps held before it in place, with the
\* value it had
C14_FailedRefreshKeeps ==
    [][((\E db \in LocalDbs : HostGetLocalGames(db, disk)) /\ last'.err # "none")
        => /\ Kept(owned_games, owned_games')
           /\ Kept(local_games, local_games')]_vars

----------------------------------------------------------------------------
(* More of the scheduler's claims, under Spec *)

\* C15: when a tick has started the refresh of a task, the guard of the task
\* is set by the time the tick returns
C15_GuardSetByTick ==
    [][\A t \in Tasks : (Tick /\ pending'[t] > pending[t]) => running_task'[t]]_vars

\* C16: a refresh that completes stamps the last check of its task with the
\* time of completion, and the stamp is persisted: the process constructed by
\* a restart reads the last check that the process before it had
C16_LastCheckPersisted ==
    [][\A t \in Tasks :
        /\ (last'.op = RefreshOf(t) /\ last'.err = "none" /\ now' = now)
            => /\ LastCheckKey(t) \in DOMAIN persistent_cache'
               /\ persistent_cache'[LastCheckKey(t)] = now
        /\ (Restart /\ LastCheckKey(t) \in DOMAIN persistent_cache)
            => /\ LastCheckKey(t) \in DOMAIN persistent_cache'
               /\ persistent_cache'[LastCheckKey(t)]
                    = persistent_cache[LastCheckKey(t)]]_vars

\* the last check of task t in the cache: <<>> when it was never stamped
StampOf(cache, t) ==
    IF LastCheckKey(t) \in DOMAIN cache THEN <<cache[LastCheckKey(t)]>> ELSE <<>>

\* the guard of t is clear and its wait time has passed since its last check
Due(t) ==
    /\ ~running_task[t]
    /\ now > persistent_cache[LastCheckKey(t)] + Seconds(WaitTime(t))

\* the step is a refresh of task t, asked by the host or started by a tick
Refreshes(t) ==
    IF t = GET_OWNED_GAMES_TASK
    THEN \E db \in SchedDbs : HostGetOwnedGames(db) \/ RunOwnedTask(db)
    ELSE \E db \in SchedDbs : HostGetLocalGames(db, disk) \/ RunLocalTask(db, disk)

\* C17: a tick starts the refresh of a task whose last check is stamped
\* exactly when that task is due, whatever the guard and the last check of the
\* other task, also when the other was never stamped; and a refresh of a task
\* leaves the guard and the last check of the other as they were
C17_Independent ==
    [][\A t \in Tasks :
        /\ (Tick /\ StampOf(persistent_cache, t) # <<>>)
            => (pending'[t] = pending[t] + 1 <=> Due(t))
        /\ Refreshes(t)
            => \A u \in Tasks \ {t} :
                /\ running_task'[u] = running_task[u]
                /\ StampOf(persistent_cache', u) = StampOf(persistent_cache, u)]_vars

\* the title ids that the map d holds
KeysOf(d) == {d[i][1] : i \in DOMAIN d}

\* C18: within a process no step takes a title out of the owned games or out
\* of the installed games: an entry stays through every later refresh, also
\* one whose rows no longer hold the title or whose executable is gone
C18_Sticky ==
    [][\/ Restart
       \/ /\ KeysOf(owned_games) \subseteq KeysOf(owned_games')
          /\ KeysOf(local_games) \subseteq KeysOf(local_games')]_vars

\* a refresh of the installed games has completed without a row of title 1,
\* whose entry is still there with an executable that is no longer on disk,
\* and the owned games hold two titles after refreshes that each read one
C18_Witness ==
    /\ last.op = "get_local_games" /\ last.err = "none"
    /\ \A i \in DOMAIN last.rows : last.rows[i].game_id # 1
    /\ DictHas(local_games, PyStr(1))
    /\ DictGet(local_games, PyStr(1)).path \notin disk
    /\ KeysOf(owned_games) = {1, 2}

----------------------------------------------------------------------------
(* More of the playtime tracker's claims, under SpecPlay *)

\* C19: the game time returned for a title of which a session has completed
\* (its total is persisted) holds the persisted total and the persisted time
\* it was last played, not None
C19_GameTimePersisted ==
    [][\A g \in TitleIds :
        (HostGetGameTime(g) /\ _get_time_played(persistent_cache, g) # <<>>)
        => last'.ret = <<GameTime(g, _get_time_played(persistent_cache, g),
                                  _get_last_played_time(persistent_cache, g))>>]_vars

\* the totals and last played times of every title in the cache
PlayTimesOf(cache) ==
    [g \in TitleIds |-> <<_get_time_played(cache, g), _get_last_played_time(cache, g)>>]

\* C20: the launch of a title that has no entry in the installed games raises
\* before a process is started, and the playtime keys of every title stay as
\* they were, in the process and with the host
C20_LaunchNotInstalled ==
    [][\A g \in TitleIds :
        (LaunchStart(g) /\ ~DictHas(local_games, g))
        => /\ last'.op = "launch_game" /\ last'.err = "KeyError"
           /\ launches' = launches
           /\ PlayTimesOf(persistent_cache') = PlayTimesOf(persistent_cache)
           /\ PlayTimesOf(host_cache') = PlayTimesOf(host_cache)]_vars

\* the launch of title 2, which is not installed, has raised: no process
\* runs, and the playtime of title 1 is persisted as before
C20_Witness ==
    /\ last.op = "launch_game" /\ last.err = "KeyError"
    /\ ~DictHas(local_games, PyStr(2))
    /\ DictHas(local_games, PyStr(1))
    /\ launches = EmptyBag
    /\ _get_time_played(host_cache, PyStr(1)) # <<>>
    /\ _get_time_played(host_cache, PyStr(2)) = <<>>

====
